---- MODULE Spec2Model ----
(***************************************************************************)
(* Model of the Ray Core guided-tour notebooks: the parallel iterator      *)
(* walkthrough (ex_para_iter.ipynb) and the remote objects / remote        *)
(* functions walkthrough (ex_remo_objs.ipynb).  The notebooks drive the    *)
(* ray.util.iter and ray.get/put/remote API; each operation is modelled    *)
(* from its call site, the behaviour the notebook narrates for it and the  *)
(* output the notebook records for it.                                     *)
(***************************************************************************)
EXTENDS Integers, Sequences, FiniteSets, TLC

\* ------------------------------------------------------------------ bounds
MaxLen == 3
MaxShards == 3
MaxChain == 2
MaxRefs == 2
NumWorkers == 2
MaxCrashes == 2
MaxMapLen == 3
MaxProcs == 2
NumReaders == 2
MaxTasks == 3
BatchSize == 2

\* items = [1, 2, 3, 4, 5] of the walkthrough
ExampleItems == <<1, 2, 3, 4, 5>>

\* item values: two codes, so that lists with repeated items and lists with
\* distinct items both occur
Vals == {1, 2}

RECURSIVE SeqsUpTo(_, _)
SeqsUpTo(S, n) ==
    IF n = 0 THEN {<<>>}
    ELSE LET shorter == SeqsUpTo(S, n - 1)
         IN  shorter \cup {Append(q, v) : q \in {p \in shorter : Len(p) = n - 1}, v \in S}

ItemLists == SeqsUpTo(Vals, MaxLen) \cup {ExampleItems}

\* ------------------------------------------------------------------ state
VARIABLES
    \* parallel iterator under construction
    items,        \* the sequence handed to from_items
    num_shards,   \* num_shards argument
    ipc,          \* "new" | "built" | "gathering"
    shards,       \* shard id (0-based) -> the shard's items
    transforms,   \* the for_each chain composed so far
    mode,         \* "none" | "sync" | "async"
    \* one worker actor per shard
    cursor,       \* items the actor has pulled from its source
    step,         \* 0: nothing in flight; k: item pulled, k-1 transforms applied
    cur,          \* the item in flight
    total,        \* self.total of the actor's copy of CumulativeSum
    fut,          \* par_iter_next future: "none" | "pending" | "ready" | "stop"
    futVal,       \* value of a ready future
    \* the gathering LocalIterator (driver side)
    gpc,          \* "idle" | "waiting" | "done"
    started,      \* the generator body has begun
    active,       \* shard ids still being read, in order
    readyList,    \* gather_async: refs ray.wait reported ready, not yet consumed
    buf,          \* gather_sync: rest of the current round (flatten)
    out,          \* items yielded to the consumer
    \* history
    outSrc,       \* for each yielded item: <<shard, index in shard>>
    produced,     \* shard -> values its actor delivered
    appliedLog    \* shard -> per pulled item, the chain positions applied

iterVars == <<items, num_shards, ipc, shards, transforms, mode, cursor, step, cur,
              total, fut, futVal, gpc, started, active, readyList, buf, out,
              outSrc, produced, appliedLog>>

VARIABLES
    \* object store and tasks
    refs,         \* number of object refs created so far
    store,        \* ref -> [st: "pending" | "value" | "error", val]
    queue,        \* submitted tasks no worker has started, oldest first
    worker,       \* worker -> [busy, ref, fn, elapsed]
    \* the driver (the notebook's own thread)
    dpc,          \* "idle" | "blocked" (inside a blocking ray.get)
    getRef,       \* the ref the blocked get waits for
    getTimeout,   \* its timeout
    waited,       \* time the blocked get has waited
    lastGet,      \* how the last ray.get ended: [ref, kind, val]
    lastWaited,   \* whether the last retrieval had to block
    \* history
    timedOut,     \* refs on which some get has ended in GetTimeoutError
    origin,       \* ref -> what created it: [fn: "put" | function name, val]
    getFresh      \* the blocked get was called before its task had run for any time

storeVars == <<refs, store, queue, worker, dpc, getRef, getTimeout, waited,
               lastGet, lastWaited, timedOut, origin, getFresh>>

VARIABLES
    \* worker crashes and retrieval of several refs at once
    failed,       \* workers that crashed and have not been restarted
    crashes,      \* number of worker crashes so far
    getRefs,      \* the refs the blocked list retrieval waits for, in list order
    lastList      \* how the last list retrieval ended: [refs, kind, vals]

poolVars == <<failed, crashes, getRefs, lastList>>

VARIABLES
    \* ray.util.multiprocessing.Pool
    mapIn,        \* the iterable handed to pool.map
    procs,        \* number of processes of the pool
    mpc,          \* "new" | "running" | "done"
    chunks,       \* chunk index (0-based) -> the chunk's inputs
    mapRes,       \* chunk index -> the chunk's results, <<>> while not ready
    mapOut,       \* the list pool.map returned
    \* history
    mapCalls,     \* input position -> number of times the function was called on it
    mapOrder      \* chunk indices in the order the chunks finished

mapVars == <<mapIn, procs, mpc, chunks, mapRes, mapOut, mapCalls, mapOrder>>

VARIABLES
    \* processes reading the object store (history)
    reads         \* every result a ray.get handed back to one of them, with the reader

readVars == <<reads>>

VARIABLES
    \* submission against a bounded backlog
    lastSubmit    \* how the last bounded submit ended: "none" | "ok" | "PoolExhausted"

backlogVars == <<lastSubmit>>

VARIABLES
    \* the word count over the notebooks
    wpc,          \* "new" | "running" | "done"
    work,         \* work[t]: the nb_word_count task of position t: [shard, st, wc]
    wc_sum,       \* token -> aggregated count
    \* history
    readers,      \* shard -> the tasks that have advanced its cursor
    wcOrder       \* task positions in the order the tasks finished

wcVars == <<wpc, work, wc_sum, readers, wcOrder>>

VARIABLES
    \* batch(n) at the end of the chain
    batchBuf      \* shard -> the items collected for the batch under way

batchVars == <<batchBuf>>

extVars == <<readVars, backlogVars, wcVars, batchVars>>

vars == <<iterVars, storeVars, poolVars, mapVars, extVars>>

ShardIds == 0..(num_shards - 1)

\* ------------------------------------------------------------ from_items
RECURSIVE FromItemsLoop(_, _, _, _)
FromItemsLoop(S, n, i, acc) ==
    IF i >= Len(S) THEN acc
    ELSE FromItemsLoop(S, n, i + 1, [acc EXCEPT ![i % n] = Append(@, S[i + 1])])

\* variant: the loop starts one element late
FromItemsSkipFirst(S, n) == FromItemsLoop(S, n, 1, [k \in 0..(n - 1) |-> <<>>])

\* variant: contiguous blocks instead of dealing the items round-robin
FromItemsBlock(S, n) ==
    LET size == (Len(S) + n - 1) \div n
    IN  [k \in 0..(n - 1) |->
            SubSeq(S, k * size + 1, IF (k + 1) * size < Len(S) THEN (k + 1) * size ELSE Len(S))]

FromItems(S, n) == FromItemsLoop(S, n, 0, [k \in 0..(n - 1) |-> <<>>])

\* ------------------------------------------------------------ transforms
TransformNames == {"Indicator", "CumulativeSum"}

\* lines are modelled by integer codes; odd codes are lines that contain "Ray"
ContainsRay(line) == line % 2 = 1

\* lambda line: 1 if "Ray" in line else 0
Indicator(line) == IF ContainsRay(line) THEN 1 ELSE 0

\* CumulativeSum.__call__: self.total += x; return (self.total, x)
CumulativeSumCall(tot, x) == [total |-> tot + x, val |-> <<tot + x, x>>]

ApplyTransform(name, tot, x) ==
    IF name = "CumulativeSum" THEN CumulativeSumCall(tot, x)
    ELSE [total |-> tot, val |-> Indicator(x)]

\* ------------------------------------------------------------ construction
IterFresh ==
    /\ ipc = "new"
    /\ shards = <<>>
    /\ transforms = <<>>
    /\ mode = "none"
    /\ cursor = <<>> /\ step = <<>> /\ cur = <<>> /\ total = <<>>
    /\ fut = <<>> /\ futVal = <<>>
    /\ gpc = "idle" /\ started = FALSE
    /\ active = <<>> /\ readyList = <<>> /\ buf = <<>> /\ out = <<>>
    /\ outSrc = <<>> /\ produced = <<>> /\ appliedLog = <<>>

InitIter ==
    /\ items \in ItemLists
    /\ num_shards \in 1..MaxShards
    /\ IterFresh

gatherVars == <<gpc, started, active, readyList, buf, out, outSrc>>
actorVars == <<cursor, step, cur, total, fut, futVal, produced, appliedLog>>

\* iter = ray.util.iter.from_items(items, num_shards=n): one actor per shard
FromItemsCall ==
    /\ ipc = "new"
    /\ ipc' = "built"
    /\ shards' = FromItems(items, num_shards)
    /\ cursor' = [s \in ShardIds |-> 0]
    /\ step' = [s \in ShardIds |-> 0]
    /\ cur' = [s \in ShardIds |-> 0]
    /\ total' = [s \in ShardIds |-> 0]
    /\ fut' = [s \in ShardIds |-> "none"]
    /\ futVal' = [s \in ShardIds |-> 0]
    /\ produced' = [s \in ShardIds |-> <<>>]
    /\ appliedLog' = [s \in ShardIds |-> <<>>]
    /\ UNCHANGED <<items, num_shards, transforms, mode>>
    /\ UNCHANGED gatherVars
    /\ UNCHANGED <<storeVars, poolVars, mapVars, extVars>>

\* a chain stays well-typed: CumulativeSum returns a tuple, so nothing follows it
CanCompose(chain) ==
    /\ Len(chain) < MaxChain
    /\ IF chain = <<>> THEN TRUE ELSE chain[Len(chain)] # "CumulativeSum"

\* iter.for_each(fn): composes fn into the chain, evaluates nothing
ForEach(name) ==
    /\ ipc = "built"
    /\ CanCompose(transforms)
    /\ transforms' = Append(transforms, name)
    /\ UNCHANGED <<items, num_shards, ipc, shards, mode>>
    /\ UNCHANGED actorVars
    /\ UNCHANGED gatherVars
    /\ UNCHANGED <<storeVars, poolVars, mapVars, extVars>>

\* iter.gather_sync() / iter.gather_async(): returns a LocalIterator, evaluates nothing
Gather(m) ==
    /\ ipc = "built"
    /\ ipc' = "gathering"
    /\ mode' = m
    /\ UNCHANGED <<items, num_shards, shards, transforms>>
    /\ UNCHANGED actorVars
    /\ UNCHANGED gatherVars
    /\ UNCHANGED <<storeVars, poolVars, mapVars, extVars>>

\* ------------------------------------------------------------ shard actors
\* variant: the source is advanced while an item is still in the chain
CanPullEager(s) == fut[s] = "pending"

\* par_iter_next runs next() on the lazily composed chain: the source is
\* advanced only when no item is in flight
CanPull(s) == fut[s] = "pending" /\ step[s] = 0

Deliver(s, v) ==
    /\ fut' = [fut EXCEPT ![s] = "ready"]
    /\ futVal' = [futVal EXCEPT ![s] = v]
    /\ produced' = [produced EXCEPT ![s] = Append(@, v)]
    /\ step' = [step EXCEPT ![s] = 0]

\* the actor pulls the next item of its shard, or raises StopIteration
ActorPull(s) ==
    /\ ipc = "gathering"
    /\ CanPull(s)
    /\ IF cursor[s] < Len(shards[s])
       THEN /\ cursor' = [cursor EXCEPT ![s] = @ + 1]
            /\ appliedLog' = [appliedLog EXCEPT ![s] = Append(@, <<>>)]
            /\ IF transforms = <<>>
               THEN /\ Deliver(s, shards[s][cursor[s] + 1])
                    /\ UNCHANGED cur
               ELSE /\ cur' = [cur EXCEPT ![s] = shards[s][cursor[s] + 1]]
                    /\ step' = [step EXCEPT ![s] = 1]
                    /\ UNCHANGED <<fut, futVal, produced>>
       ELSE /\ fut' = [fut EXCEPT ![s] = "stop"]
            /\ UNCHANGED <<cursor, appliedLog, cur, step, futVal, produced>>
    /\ UNCHANGED total
    /\ UNCHANGED <<items, num_shards, ipc, shards, transforms, mode>>
    /\ UNCHANGED gatherVars
    /\ UNCHANGED <<storeVars, poolVars, mapVars, extVars>>

\* variant: every shard reads the state kept for the first shard
StateOfFirst(s) == total[0]

\* for_each(CumulativeSum()) ships the object to each shard's actor: shard s
\* works on its own copy
StateOf(s) == total[s]

\* the actor applies the next transform of the chain to the item in flight
ActorApply(s) ==
    /\ ipc = "gathering"
    /\ fut[s] = "pending"
    /\ step[s] >= 1
    /\ LET i == step[s]
           r == ApplyTransform(transforms[i], StateOf(s), cur[s])
       IN  /\ total' = [total EXCEPT ![s] = r.total]
           /\ appliedLog' = [appliedLog EXCEPT ![s][Len(appliedLog[s])] = Append(@, i)]
           /\ IF i = Len(transforms)
              THEN /\ Deliver(s, r.val)
                   /\ UNCHANGED cur
              ELSE /\ cur' = [cur EXCEPT ![s] = r.val]
                   /\ step' = [step EXCEPT ![s] = i + 1]
                   /\ UNCHANGED <<fut, futVal, produced>>
    /\ UNCHANGED cursor
    /\ UNCHANGED <<items, num_shards, ipc, shards, transforms, mode>>
    /\ UNCHANGED gatherVars
    /\ UNCHANGED <<storeVars, poolVars, mapVars, extVars>>

\* ------------------------------------------------------------ batch
\* iter.batch(n): composes the batching stage, evaluates nothing
BatchCall ==
    /\ ipc = "built"
    /\ transforms = <<>>
    /\ batchBuf = <<>>
    /\ batchBuf' = [s \in ShardIds |-> <<>>]
    /\ UNCHANGED <<readVars, backlogVars, wcVars>>
    /\ UNCHANGED <<iterVars, storeVars, poolVars, mapVars>>

\* variant: batches are built ahead of any request
CanBatchEager(s) == TRUE

\* the batching stage runs inside par_iter_next
CanBatch(s) == fut[s] = "pending"

\* next() on the batching stage: items are pulled from the shard until the
\* batch is full or the shard is exhausted; a last short batch is delivered,
\* an empty one is not
BatchPull(s) ==
    /\ ipc = "gathering"
    /\ batchBuf # <<>>
    /\ CanBatch(s)
    /\ IF cursor[s] < Len(shards[s]) /\ Len(batchBuf[s]) < BatchSize
       THEN /\ cursor' = [cursor EXCEPT ![s] = @ + 1]
            /\ batchBuf' = [batchBuf EXCEPT ![s] = Append(@, shards[s][cursor[s] + 1])]
            /\ UNCHANGED <<fut, futVal, produced, step>>
       ELSE IF batchBuf[s] # <<>>
            THEN /\ Deliver(s, batchBuf[s])
                 /\ batchBuf' = [batchBuf EXCEPT ![s] = <<>>]
                 /\ UNCHANGED cursor
            ELSE /\ fut' = [fut EXCEPT ![s] = "stop"]
                 /\ UNCHANGED <<cursor, batchBuf, futVal, produced, step>>
    /\ UNCHANGED <<cur, total, appliedLog>>
    /\ UNCHANGED <<items, num_shards, ipc, shards, transforms, mode>>
    /\ UNCHANGED gatherVars
    /\ UNCHANGED <<readVars, backlogVars, wcVars>>
    /\ UNCHANGED <<storeVars, poolVars, mapVars>>

\* ------------------------------------------------------------ sequences
Settled(s) == fut[s] \in {"ready", "stop"}

RECURSIVE Filter(_, _)
Filter(q, keep) ==
    IF q = <<>> THEN <<>>
    ELSE IF keep[Head(q)] THEN <<Head(q)>> \o Filter(Tail(q), keep)
         ELSE Filter(Tail(q), keep)

IsReady == [s \in ShardIds |-> fut[s] = "ready"]
IsSettled == [s \in ShardIds |-> Settled(s)]

RECURSIVE UpTo(_, _)
UpTo(a, b) == IF a > b THEN <<>> ELSE <<a>> \o UpTo(a + 1, b)

\* [a.par_iter_next.remote() for a in q]
Requested(q) ==
    [s \in ShardIds |-> IF \E k \in DOMAIN q : q[k] = s THEN "pending" ELSE fut[s]]

\* the index, in its shard, of the value a ready future of shard s holds
ReadyIdx(s) == Len(produced[s])

\* ------------------------------------------------------------ gather_sync
\* variant: the round is collected in reverse shard order
RoundResultsReversed(live) ==
    [k \in 1..Len(live) |->
        [val |-> futVal[live[Len(live) + 1 - k]],
         src |-> <<live[Len(live) + 1 - k], Len(produced[live[Len(live) + 1 - k]])>>]]

\* results of one round, in shard order, with the place each came from
RoundResults(live) ==
    [k \in 1..Len(live) |->
        [val |-> futVal[live[k]], src |-> <<live[k], ReadyIdx(live[k])>>]]

\* variant: the round is taken as soon as one future is settled
RoundAnySettled == \E k \in DOMAIN active : Settled(active[k])

\* ray.get(futures) returns once every future of the round is settled
RoundComplete == \A k \in DOMAIN active : Settled(active[k])

\* the consumer calls next() on the gather_sync iterator
SyncNext ==
    /\ ipc = "gathering" /\ mode = "sync" /\ gpc = "idle"
    /\ IF buf # <<>>
       THEN /\ out' = Append(out, Head(buf).val)
            /\ outSrc' = Append(outSrc, Head(buf).src)
            /\ buf' = Tail(buf)
            /\ UNCHANGED <<gpc, started, active, fut>>
       ELSE LET act == IF started THEN active ELSE UpTo(0, num_shards - 1)
            IN  /\ started' = TRUE
                /\ active' = act
                /\ fut' = Requested(act)
                /\ gpc' = IF act = <<>> THEN "done" ELSE "waiting"
                /\ UNCHANGED <<buf, out, outSrc>>
    /\ UNCHANGED readyList
    /\ UNCHANGED <<items, num_shards, ipc, shards, transforms, mode>>
    /\ UNCHANGED <<cursor, step, cur, total, futVal, produced, appliedLog>>
    /\ UNCHANGED <<storeVars, poolVars, mapVars, extVars>>

\* variant: the first exhausted shard ends the gathering, as zip would
LiveAfterRoundZip ==
    IF \A k \in DOMAIN active : fut[active[k]] = "ready" THEN active ELSE <<>>

\* except StopIteration: the shards that raised it are removed, the others
\* stay active in their order
LiveAfterRound == Filter(active, IsReady)

\* the blocked ray.get(futures) returns: the round is yielded, shards that
\* raised StopIteration are dropped from the active list
SyncWake ==
    /\ ipc = "gathering" /\ mode = "sync" /\ gpc = "waiting"
    /\ RoundComplete
    /\ LET live == LiveAfterRound
           results == RoundResults(live)
       IN  /\ active' = live
           /\ IF results = <<>>
              THEN /\ gpc' = "done"
                   /\ UNCHANGED <<buf, out, outSrc>>
              ELSE /\ gpc' = "idle"
                   /\ out' = Append(out, results[1].val)
                   /\ outSrc' = Append(outSrc, results[1].src)
                   /\ buf' = Tail(results)
    /\ UNCHANGED <<started, readyList>>
    /\ UNCHANGED <<items, num_shards, ipc, shards, transforms, mode>>
    /\ UNCHANGED actorVars
    /\ UNCHANGED <<storeVars, poolVars, mapVars, extVars>>

\* ------------------------------------------------------------ gather_async
Remove(q, s) == Filter(q, [x \in ShardIds |-> x # s])

\* one resumption of the gather_async generator: consume the refs reported
\* ready, dropping the shards that stopped; poll again when they run out
RECURSIVE AsyncRun(_, _)
AsyncRun(ready, futs) ==
    IF ready # <<>>
    THEN LET s == Head(ready)
         IN  IF fut[s] = "ready"
             THEN [kind |-> "yield", s |-> s, ready |-> Tail(ready),
                   futs |-> Remove(futs, s) \o <<s>>]
             ELSE AsyncRun(Tail(ready), Remove(futs, s))
    ELSE IF futs = <<>>
         THEN [kind |-> "done", s |-> 0, ready |-> <<>>, futs |-> <<>>]
         ELSE LET r == Filter(futs, IsSettled)
              IN  IF r = <<>>
                  THEN [kind |-> "block", s |-> 0, ready |-> <<>>, futs |-> futs]
                  ELSE AsyncRun(r, futs)

\* variant: the shard is not asked for its next item after a yield
AsyncResumeNoRequest(r) ==
    /\ active' = r.futs
    /\ readyList' = r.ready
    /\ IF r.kind = "yield"
       THEN /\ out' = Append(out, futVal[r.s])
            /\ outSrc' = Append(outSrc, <<r.s, Len(produced[r.s])>>)
            /\ gpc' = "idle"
            /\ UNCHANGED fut
       ELSE /\ gpc' = IF r.kind = "done" THEN "done" ELSE "waiting"
            /\ UNCHANGED <<out, outSrc, fut>>

AsyncResume(r) ==
    /\ active' = r.futs
    /\ readyList' = r.ready
    /\ IF r.kind = "yield"
       THEN /\ out' = Append(out, futVal[r.s])
            /\ outSrc' = Append(outSrc, <<r.s, ReadyIdx(r.s)>>)
            /\ fut' = [fut EXCEPT ![r.s] = "pending"]
            /\ gpc' = "idle"
       ELSE /\ gpc' = IF r.kind = "done" THEN "done" ELSE "waiting"
            /\ UNCHANGED <<out, outSrc, fut>>

\* the consumer calls next() on the gather_async iterator
AsyncNext ==
    /\ ipc = "gathering" /\ mode = "async" /\ gpc = "idle"
    /\ IF ~started
       THEN /\ started' = TRUE
            /\ active' = UpTo(0, num_shards - 1)
            /\ fut' = Requested(UpTo(0, num_shards - 1))
            /\ gpc' = "waiting"
            /\ UNCHANGED <<readyList, out, outSrc>>
       ELSE /\ AsyncResume(AsyncRun(readyList, active))
            /\ UNCHANGED started
    /\ UNCHANGED buf
    /\ UNCHANGED <<items, num_shards, ipc, shards, transforms, mode>>
    /\ UNCHANGED <<cursor, step, cur, total, futVal, produced, appliedLog>>
    /\ UNCHANGED <<storeVars, poolVars, mapVars, extVars>>

\* the blocked ray.wait(pending, num_returns=1) returns one settled ref
AsyncWake ==
    /\ ipc = "gathering" /\ mode = "async" /\ gpc = "waiting"
    /\ \E k \in DOMAIN active :
          /\ Settled(active[k])
          /\ AsyncResume(AsyncRun(<<active[k]>>, active))
    /\ UNCHANGED <<started, buf>>
    /\ UNCHANGED <<items, num_shards, ipc, shards, transforms, mode>>
    /\ UNCHANGED <<cursor, step, cur, total, futVal, produced, appliedLog>>
    /\ UNCHANGED <<storeVars, poolVars, mapVars, extVars>>

\* ------------------------------------------------------------ remote functions
\* time.sleep(2) of slow_function
SleepSlow == 2
\* time.sleep(4) of long_running_function
SleepLong == 4
\* ray.get(obj_ref, timeout=4)
GetTimeout == 4
\* a function body that ends without return gives None
NoneCode == -1
\* ray.get(obj_ref) without a timeout argument
NoTimeout == -2

Fns == {"my_function", "slow_function", "long_running_function"}

Duration(fn) ==
    IF fn = "slow_function" THEN SleepSlow
    ELSE IF fn = "long_running_function" THEN SleepLong
    ELSE 0

\* random.randint(0, 9): the two ends of the range are drawn
RandVals == {0, 9}

\* my_function returns 1; slow_function returns random.randint(0, 9);
\* long_running_function returns None
ReturnVals(fn) ==
    IF fn = "my_function" THEN {1}
    ELSE IF fn = "slow_function" THEN RandVals
    ELSE {NoneCode}

\* y = 1; ray.put(y)   and   ray.put(i) for i in range(3)
PutVals == 0..2

Timeouts == {0, GetTimeout, NoTimeout}

Workers == 1..NumWorkers

IdleWorker == [busy |-> FALSE, ref |-> 0, fn |-> "none", elapsed |-> 0]

NoGet == [ref |-> 0, kind |-> "none", val |-> 0]

NoList == [refs |-> <<>>, kind |-> "none", vals |-> <<>>]

PoolFresh ==
    /\ failed = {}
    /\ crashes = 0
    /\ getRefs = <<>>
    /\ lastList = NoList

MapFresh ==
    /\ mpc = "new"
    /\ chunks = <<>>
    /\ mapRes = <<>>
    /\ mapOut = <<>>
    /\ mapCalls = <<>>
    /\ mapOrder = <<>>

ExtFresh ==
    /\ reads = {}
    /\ lastSubmit = "none"
    /\ wpc = "new"
    /\ work = <<>>
    /\ wc_sum = <<>>
    /\ readers = <<>>
    /\ wcOrder = <<>>
    /\ batchBuf = <<>>

InitStore ==
    /\ refs = 0
    /\ store = <<>>
    /\ queue = <<>>
    /\ worker = [w \in Workers |-> IdleWorker]
    /\ dpc = "idle"
    /\ getRef = 0
    /\ getTimeout = NoTimeout
    /\ waited = 0
    /\ lastGet = NoGet
    /\ lastWaited = FALSE
    /\ timedOut = {}
    /\ origin = <<>>
    /\ getFresh = FALSE

Resolved(h) == store[h].st # "pending"

\* what ray.get hands back for a resolved ref: the value, or the task's error
GetResult(h) == [ref |-> h, kind |-> store[h].st, val |-> store[h].val]

\* GetTimeoutError
TimeoutResult(h) == [ref |-> h, kind |-> "timeout", val |-> 0]

\* no worker has run the task of ref h for any time yet
NotRun(h) ==
    \A w \in Workers : (worker[w].busy /\ worker[w].ref = h) => worker[w].elapsed = 0

\* ------------------------------------------------------------ driver
\* variant: put hands back a ref whose value is still to be stored
PutUnresolved(v) ==
    /\ dpc = "idle"
    /\ refs < MaxRefs
    /\ refs' = refs + 1
    /\ store' = Append(store, [st |-> "pending", val |-> v])
    /\ origin' = Append(origin, [fn |-> "put", val |-> v])
    /\ UNCHANGED <<queue, worker, dpc, getRef, getTimeout, waited, lastGet, lastWaited,
                   timedOut, getFresh>>
    /\ UNCHANGED <<iterVars, poolVars, mapVars, extVars>>

\* obj_ref = ray.put(y): the ref is created holding the value
Put(v) ==
    /\ dpc = "idle"
    /\ refs < MaxRefs
    /\ refs' = refs + 1
    /\ store' = Append(store, [st |-> "value", val |-> v])
    /\ origin' = Append(origin, [fn |-> "put", val |-> v])
    /\ UNCHANGED <<queue, worker, dpc, getRef, getTimeout, waited, lastGet, lastWaited,
                   timedOut, getFresh>>
    /\ UNCHANGED <<iterVars, poolVars, mapVars, extVars>>

\* variant: the call runs the function itself and returns its result's ref
SubmitInline(fn) ==
    /\ dpc = "idle"
    /\ refs < MaxRefs
    /\ refs' = refs + 1
    /\ \E v \in ReturnVals(fn) : store' = Append(store, [st |-> "value", val |-> v])
    /\ origin' = Append(origin, [fn |-> fn, val |-> 0])
    /\ UNCHANGED <<queue, worker, dpc, getRef, getTimeout, waited, lastGet, lastWaited,
                   timedOut, getFresh>>
    /\ UNCHANGED <<iterVars, poolVars, mapVars, extVars>>

\* obj_ref = fn.remote(): returns the ref at once; the task waits for a worker
Submit(fn) ==
    /\ dpc = "idle"
    /\ refs < MaxRefs
    /\ refs' = refs + 1
    /\ store' = Append(store, [st |-> "pending", val |-> 0])
    /\ queue' = Append(queue, [ref |-> refs + 1, fn |-> fn])
    /\ origin' = Append(origin, [fn |-> fn, val |-> 0])
    /\ UNCHANGED <<worker, dpc, getRef, getTimeout, waited, lastGet, lastWaited,
                   timedOut, getFresh>>
    /\ UNCHANGED <<iterVars, poolVars, mapVars, extVars>>

\* a timeout argument was given
HasTimeout(t) == t # NoTimeout

\* variant: a timeout of 0 waits like any other timeout
ExpiresAtOnceNever(t) == FALSE

\* a timeout of 0 allows no waiting at all
ExpiresAtOnce(t) == HasTimeout(t) /\ t = 0

\* variant: a ref that timed out once keeps timing out
GetCallPoisoned(h, t) ==
    /\ dpc = "idle"
    /\ h \in 1..refs
    /\ IF Resolved(h) /\ h \notin timedOut
       THEN /\ lastGet' = GetResult(h)
            /\ lastWaited' = FALSE
            /\ UNCHANGED <<dpc, getRef, getTimeout, waited, timedOut, getFresh>>
       ELSE IF ExpiresAtOnce(t) \/ h \in timedOut
            THEN /\ lastGet' = TimeoutResult(h)
                 /\ lastWaited' = FALSE
                 /\ timedOut' = timedOut \cup {h}
                 /\ UNCHANGED <<dpc, getRef, getTimeout, waited, getFresh>>
            ELSE /\ dpc' = "blocked"
                 /\ getRef' = h
                 /\ getTimeout' = t
                 /\ waited' = 0
                 /\ getFresh' = NotRun(h)
                 /\ UNCHANGED <<lastGet, lastWaited, timedOut>>
    /\ UNCHANGED <<refs, origin, store, queue, worker>>
    /\ UNCHANGED <<iterVars, poolVars, mapVars, extVars>>

\* ray.get(obj_ref, timeout=t): returns at once when the ref is resolved,
\* raises GetTimeoutError at once when it is not and no time is allowed,
\* blocks otherwise
GetCall(h, t) ==
    /\ dpc = "idle"
    /\ h \in 1..refs
    /\ IF Resolved(h)
       THEN /\ lastGet' = GetResult(h)
            /\ lastWaited' = FALSE
            /\ UNCHANGED <<dpc, getRef, getTimeout, waited, timedOut, getFresh>>
       ELSE IF ExpiresAtOnce(t)
            THEN /\ lastGet' = TimeoutResult(h)
                 /\ lastWaited' = FALSE
                 /\ timedOut' = timedOut \cup {h}
                 /\ UNCHANGED <<dpc, getRef, getTimeout, waited, getFresh>>
            ELSE /\ dpc' = "blocked"
                 /\ getRef' = h
                 /\ getTimeout' = t
                 /\ waited' = 0
                 /\ getFresh' = NotRun(h)
                 /\ UNCHANGED <<lastGet, lastWaited, timedOut>>
    /\ UNCHANGED <<refs, origin, store, queue, worker>>
    /\ UNCHANGED <<iterVars, poolVars, mapVars, extVars>>

\* the blocked get returns: the ref has been resolved
GetWake ==
    /\ dpc = "blocked"
    /\ Resolved(getRef)
    /\ dpc' = "idle"
    /\ getRef' = 0 /\ getTimeout' = NoTimeout /\ waited' = 0
    /\ getFresh' = FALSE
    /\ lastGet' = GetResult(getRef)
    /\ lastWaited' = TRUE
    /\ UNCHANGED <<refs, origin, store, queue, worker, timedOut>>
    /\ UNCHANGED <<iterVars, poolVars, mapVars, extVars>>

\* variant: a get that times out gives up on the task
GetExpireCancels ==
    /\ dpc = "blocked"
    /\ HasTimeout(getTimeout)
    /\ waited >= getTimeout
    /\ ~Resolved(getRef)
    /\ dpc' = "idle"
    /\ getRef' = 0 /\ getTimeout' = NoTimeout /\ waited' = 0
    /\ getFresh' = FALSE
    /\ lastGet' = TimeoutResult(getRef)
    /\ lastWaited' = TRUE
    /\ timedOut' = timedOut \cup {getRef}
    /\ store' = [store EXCEPT ![getRef] = [st |-> "error", val |-> 0]]
    /\ UNCHANGED <<refs, origin, queue, worker>>
    /\ UNCHANGED <<iterVars, poolVars, mapVars, extVars>>

\* the blocked get raises GetTimeoutError: the timeout has elapsed and the ref
\* is still unresolved; the except branch only prints
GetExpire ==
    /\ dpc = "blocked"
    /\ HasTimeout(getTimeout)
    /\ waited >= getTimeout
    /\ ~Resolved(getRef)
    /\ dpc' = "idle"
    /\ getRef' = 0 /\ getTimeout' = NoTimeout /\ waited' = 0
    /\ getFresh' = FALSE
    /\ lastGet' = TimeoutResult(getRef)
    /\ lastWaited' = TRUE
    /\ timedOut' = timedOut \cup {getRef}
    /\ UNCHANGED <<refs, origin, store, queue, worker>>
    /\ UNCHANGED <<iterVars, poolVars, mapVars, extVars>>

\* ------------------------------------------------------------ lists of refs
\* the lists of refs handed to one retrieval: existing refs, none twice
RefLists(n) ==
    {hs \in SeqsUpTo(1..n, n) :
        /\ Len(hs) > 0
        /\ \A i, j \in DOMAIN hs : i # j => hs[i] # hs[j]}

\* variant: a ref that holds a failure counts as unfinished
AllResolvedValues(hs) == \A k \in DOMAIN hs : store[hs[k]].st = "value"

AllResolved(hs) == \A i \in DOMAIN hs : Resolved(hs[i])

\* position of the first ref of the list that holds an error
FirstError(hs) ==
    CHOOSE i \in DOMAIN hs :
        /\ store[hs[i]].st = "error"
        /\ \A j \in 1..(i - 1) : store[hs[j]].st # "error"

\* the refs of the list in increasing order
SortRefs(hs) ==
    CHOOSE q \in RefLists(refs) :
        /\ {q[i] : i \in DOMAIN q} = {hs[i] : i \in DOMAIN hs}
        /\ \A i, j \in DOMAIN q : i < j => q[i] < q[j]

\* variant: the values come back in the order the refs were created
ListResultByRef(hs) ==
    IF \E i \in DOMAIN hs : store[hs[i]].st = "error"
    THEN [refs |-> hs, kind |-> "error", vals |-> <<GetResult(hs[FirstError(hs)])>>]
    ELSE [refs |-> hs, kind |-> "values",
          vals |-> [i \in DOMAIN hs |-> GetResult(SortRefs(hs)[i])]]

\* what ray.get hands back for a list of resolved refs: the list of their
\* values in list order, or the first error in list order
ListResult(hs) ==
    IF \E i \in DOMAIN hs : store[hs[i]].st = "error"
    THEN [refs |-> hs, kind |-> "error", vals |-> <<GetResult(hs[FirstError(hs)])>>]
    ELSE [refs |-> hs, kind |-> "values",
          vals |-> [i \in DOMAIN hs |-> GetResult(hs[i])]]

\* ray.get(list of refs): returns at once when all are resolved, blocks otherwise
GetListCall(hs) ==
    /\ dpc = "idle"
    /\ hs \in RefLists(refs)
    /\ IF AllResolved(hs)
       THEN /\ lastList' = ListResult(hs)
            /\ lastWaited' = FALSE
            /\ UNCHANGED <<dpc, getRefs>>
       ELSE /\ dpc' = "blockedList"
            /\ getRefs' = hs
            /\ UNCHANGED <<lastList, lastWaited>>
    /\ UNCHANGED <<refs, origin, store, queue, worker, getRef, getTimeout, waited,
                   lastGet, timedOut, getFresh, failed, crashes>>
    /\ UNCHANGED <<iterVars, mapVars, extVars>>

\* the blocked ray.get(list) returns: every ref of the list is resolved
GetListWake ==
    /\ dpc = "blockedList"
    /\ AllResolved(getRefs)
    /\ dpc' = "idle"
    /\ getRefs' = <<>>
    /\ lastList' = ListResult(getRefs)
    /\ lastWaited' = TRUE
    /\ UNCHANGED <<refs, origin, store, queue, worker, getRef, getTimeout, waited,
                   lastGet, timedOut, getFresh, failed, crashes>>
    /\ UNCHANGED <<iterVars, mapVars, extVars>>

\* ------------------------------------------------------------ get_many
ManyTimeouts == {0, GetTimeout}

PendingResult(h) == [ref |-> h, kind |-> "pending", val |-> 0]

\* variant: when the timeout expires nothing is reported
ManyReportDiscards(hs) ==
    IF AllResolved(hs)
    THEN [refs |-> hs, kind |-> "all", vals |-> [i \in DOMAIN hs |-> GetResult(hs[i])]]
    ELSE [refs |-> hs, kind |-> "partial", vals |-> [i \in DOMAIN hs |-> PendingResult(hs[i])]]

\* the report of get_many: per ref of the list its result, or that it is pending
ManyReport(hs) ==
    [refs |-> hs,
     kind |-> IF AllResolved(hs) THEN "all" ELSE "partial",
     vals |-> [i \in DOMAIN hs |->
                  IF Resolved(hs[i]) THEN GetResult(hs[i]) ELSE PendingResult(hs[i])]]

\* get_many(handles, timeout): reports at once when all are resolved or no
\* time is allowed, blocks otherwise
GetManyCall(hs, t) ==
    /\ dpc = "idle"
    /\ hs \in RefLists(refs)
    /\ IF AllResolved(hs) \/ ExpiresAtOnce(t)
       THEN /\ lastList' = ManyReport(hs)
            /\ lastWaited' = FALSE
            /\ UNCHANGED <<dpc, getRefs, getTimeout, waited>>
       ELSE /\ dpc' = "blockedMany"
            /\ getRefs' = hs
            /\ getTimeout' = t
            /\ waited' = 0
            /\ UNCHANGED <<lastList, lastWaited>>
    /\ UNCHANGED <<refs, origin, store, queue, worker, getRef, lastGet,
                   timedOut, getFresh, failed, crashes>>
    /\ UNCHANGED <<iterVars, mapVars, extVars>>

\* the blocked get_many returns: every ref of the list is resolved
GetManyWake ==
    /\ dpc = "blockedMany"
    /\ AllResolved(getRefs)
    /\ dpc' = "idle"
    /\ getRefs' = <<>> /\ getTimeout' = NoTimeout /\ waited' = 0
    /\ lastList' = ManyReport(getRefs)
    /\ lastWaited' = TRUE
    /\ UNCHANGED <<refs, origin, store, queue, worker, getRef, lastGet,
                   timedOut, getFresh, failed, crashes>>
    /\ UNCHANGED <<iterVars, mapVars, extVars>>

\* the shared timeout of the blocked get_many expires
GetManyExpire ==
    /\ dpc = "blockedMany"
    /\ waited >= getTimeout
    /\ ~AllResolved(getRefs)
    /\ dpc' = "idle"
    /\ getRefs' = <<>> /\ getTimeout' = NoTimeout /\ waited' = 0
    /\ lastList' = ManyReport(getRefs)
    /\ lastWaited' = TRUE
    /\ UNCHANGED <<refs, origin, store, queue, worker, getRef, lastGet,
                   timedOut, getFresh, failed, crashes>>
    /\ UNCHANGED <<iterVars, mapVars, extVars>>

\* ------------------------------------------------------------ workers
\* variant: the task submitted last is taken first
NextTaskNewest(q) == q[Len(q)]

\* the task a free worker takes: the oldest one waiting
NextTask(q) == Head(q)

\* a worker that can take a task: it runs none and has not crashed
Idle(w) == ~worker[w].busy /\ w \notin failed

\* idle workers are interchangeable: the first idle one takes the task
FirstIdle(w) == Idle(w) /\ \A u \in 1..(w - 1) : ~Idle(u)

\* variant: the task is handed to the worker and stays in the queue as well
WorkerStartKeepsQueued(w) ==
    /\ FirstIdle(w)
    /\ queue # <<>>
    /\ worker' = [worker EXCEPT ![w] =
          [busy |-> TRUE, ref |-> NextTask(queue).ref, fn |-> NextTask(queue).fn,
           elapsed |-> 0]]
    /\ UNCHANGED <<refs, origin, store, queue, dpc, getRef, getTimeout, waited, lastGet,
                   lastWaited, timedOut, getFresh>>
    /\ UNCHANGED <<iterVars, poolVars, mapVars, extVars>>

\* a free worker takes the oldest waiting task out of the queue
WorkerStart(w) ==
    /\ FirstIdle(w)
    /\ queue # <<>>
    /\ worker' = [worker EXCEPT ![w] =
          [busy |-> TRUE, ref |-> NextTask(queue).ref, fn |-> NextTask(queue).fn,
           elapsed |-> 0]]
    /\ queue' = Tail(queue)
    /\ UNCHANGED <<refs, origin, store, dpc, getRef, getTimeout, waited, lastGet, lastWaited, timedOut, getFresh>>
    /\ UNCHANGED <<iterVars, poolVars, mapVars, extVars>>

Min(a, b) == IF a < b THEN a ELSE b

\* one unit of time passes for every running task and for the blocked get
Tick ==
    /\ worker' = [w \in Workers |->
          IF worker[w].busy
          THEN [worker[w] EXCEPT !.elapsed = Min(@ + 1, Duration(worker[w].fn))]
          ELSE worker[w]]
    /\ waited' = IF dpc \in {"blocked", "blockedMany"} /\ HasTimeout(getTimeout)
                 THEN Min(waited + 1, getTimeout)
                 ELSE waited
    /\ UNCHANGED <<refs, origin, store, queue, dpc, getRef, getTimeout, lastGet, lastWaited, timedOut, getFresh>>
    /\ UNCHANGED <<iterVars, poolVars, mapVars, extVars>>

\* variant: the worker keeps the task after reporting its result
WorkerAfterReturnKeeps(w) == worker[w]

\* the worker is free again once the result is stored
WorkerAfterReturn(w) == IdleWorker

\* the oldest ref that is still unresolved
OldestPending == CHOOSE h \in 1..refs :
    store[h].st = "pending" /\ \A g \in 1..(h - 1) : store[g].st # "pending"

\* variant: results are filed in the order the tasks finish
ResultSlotByCompletion(w) == OldestPending

\* the ref a worker's result belongs to: the one made when its task was submitted
ResultSlot(w) == worker[w].ref

\* the task body returns: its value is stored under the task's ref
WorkerReturn(w) ==
    /\ worker[w].busy
    /\ worker[w].elapsed >= Duration(worker[w].fn)
    /\ \E v \in ReturnVals(worker[w].fn) :
          store' = [store EXCEPT ![ResultSlot(w)] = [st |-> "value", val |-> v]]
    /\ worker' = [worker EXCEPT ![w] = WorkerAfterReturn(w)]
    /\ UNCHANGED <<refs, origin, queue, dpc, getRef, getTimeout, waited, lastGet, lastWaited, timedOut, getFresh>>
    /\ UNCHANGED <<iterVars, poolVars, mapVars, extVars>>

\* variant: one failing task fails every task that is still unresolved
WorkerRaiseFailsAll(w) ==
    /\ worker[w].busy
    /\ store' = [h \in 1..refs |->
          IF store[h].st = "pending" THEN [st |-> "error", val |-> 0] ELSE store[h]]
    /\ worker' = [worker EXCEPT ![w] = IdleWorker]
    /\ UNCHANGED <<refs, origin, queue, dpc, getRef, getTimeout, waited, lastGet,
                   lastWaited, timedOut, getFresh>>
    /\ UNCHANGED <<iterVars, poolVars, mapVars, extVars>>

\* the task body raises: the error is stored under the task's ref
WorkerRaise(w) ==
    /\ worker[w].busy
    /\ store' = [store EXCEPT ![worker[w].ref] = [st |-> "error", val |-> 0]]
    /\ worker' = [worker EXCEPT ![w] = IdleWorker]
    /\ UNCHANGED <<refs, origin, queue, dpc, getRef, getTimeout, waited, lastGet, lastWaited, timedOut, getFresh>>
    /\ UNCHANGED <<iterVars, poolVars, mapVars, extVars>>

\* variant: a crash takes the waiting tasks down with the worker
WorkerCrashDropsQueue(w) ==
    /\ w \notin failed
    /\ crashes < MaxCrashes
    /\ crashes' = crashes + 1
    /\ failed' = failed \cup {w}
    /\ store' = IF worker[w].busy
                THEN [store EXCEPT ![worker[w].ref] = [st |-> "error", val |-> 0]]
                ELSE store
    /\ worker' = [worker EXCEPT ![w] = IdleWorker]
    /\ queue' = <<>>
    /\ UNCHANGED <<refs, origin, dpc, getRef, getTimeout, waited, lastGet,
                   lastWaited, timedOut, getFresh, getRefs, lastList>>
    /\ UNCHANGED <<iterVars, mapVars, extVars>>

\* a worker crashes: it is out of service until restarted, and the task it
\* was running, if any, ends in a failure on its own ref
WorkerCrash(w) ==
    /\ w \notin failed
    /\ crashes < MaxCrashes
    /\ crashes' = crashes + 1
    /\ failed' = failed \cup {w}
    /\ store' = IF worker[w].busy
                THEN [store EXCEPT ![worker[w].ref] = [st |-> "error", val |-> 0]]
                ELSE store
    /\ worker' = [worker EXCEPT ![w] = IdleWorker]
    /\ UNCHANGED <<refs, origin, queue, dpc, getRef, getTimeout, waited, lastGet,
                   lastWaited, timedOut, getFresh, getRefs, lastList>>
    /\ UNCHANGED <<iterVars, mapVars, extVars>>

\* a crashed worker is restarted and can take tasks again
WorkerRestart(w) ==
    /\ w \in failed
    /\ failed' = failed \ {w}
    /\ UNCHANGED <<storeVars, crashes, getRefs, lastList>>
    /\ UNCHANGED <<iterVars, mapVars, extVars>>

\* ------------------------------------------------------------ bounded backlog
\* the loop of the walkthrough submits slow_function
LoopFns == {"slow_function"}

\* the configured backlog bound
BacklogBound == 1

\* variant: the backlog is never taken to be full
BacklogFullNever == FALSE

\* the pool is saturated beyond the backlog bound
BacklogFull == Len(queue) >= BacklogBound

\* variant: a submit against a full backlog waits until there is room
SubmitBoundedBlocks(fn) ==
    /\ dpc = "idle"
    /\ ~BacklogFull
    /\ refs < MaxTasks
    /\ refs' = refs + 1
    /\ store' = Append(store, [st |-> "pending", val |-> 0])
    /\ queue' = Append(queue, [ref |-> refs + 1, fn |-> fn])
    /\ origin' = Append(origin, [fn |-> fn, val |-> 0])
    /\ lastSubmit' = "ok"
    /\ UNCHANGED <<worker, dpc, getRef, getTimeout, waited, lastGet, lastWaited,
                   timedOut, getFresh>>
    /\ UNCHANGED <<readVars, wcVars, batchVars>>
    /\ UNCHANGED <<iterVars, poolVars, mapVars>>

\* fn.remote() against a bounded backlog, fail-fast policy: the call returns at
\* once, with a new ref or with PoolExhausted
SubmitBounded(fn) ==
    /\ dpc = "idle"
    /\ IF BacklogFull
       THEN /\ lastSubmit' = "PoolExhausted"
            /\ UNCHANGED storeVars
       ELSE /\ refs < MaxTasks
            /\ refs' = refs + 1
            /\ store' = Append(store, [st |-> "pending", val |-> 0])
            /\ queue' = Append(queue, [ref |-> refs + 1, fn |-> fn])
            /\ origin' = Append(origin, [fn |-> fn, val |-> 0])
            /\ lastSubmit' = "ok"
            /\ UNCHANGED <<worker, dpc, getRef, getTimeout, waited, lastGet, lastWaited,
                           timedOut, getFresh>>
    /\ UNCHANGED <<readVars, wcVars, batchVars>>
    /\ UNCHANGED <<iterVars, poolVars, mapVars>>

\* ------------------------------------------------------------ other readers
Readers == 1..NumReaders

\* variant: the read moves the value out of the store and leaves None behind
ReaderGetTakes(r, h) ==
    /\ h \in 1..refs
    /\ Resolved(h)
    /\ reads' = reads \cup {[reader |-> r, res |-> GetResult(h)]}
    /\ store' = [store EXCEPT ![h] = [st |-> "value", val |-> NoneCode]]
    /\ UNCHANGED <<refs, queue, worker, dpc, getRef, getTimeout, waited, lastGet,
                   lastWaited, timedOut, origin, getFresh>>
    /\ UNCHANGED <<backlogVars, wcVars, batchVars>>
    /\ UNCHANGED <<iterVars, poolVars, mapVars>>

\* ray.get(obj_ref) by a process other than the driver, on an object that is
\* in the store: objects can be accessed from anywhere on the cluster
ReaderGet(r, h) ==
    /\ h \in 1..refs
    /\ Resolved(h)
    /\ reads' = reads \cup {[reader |-> r, res |-> GetResult(h)]}
    /\ UNCHANGED storeVars
    /\ UNCHANGED <<backlogVars, wcVars, batchVars>>
    /\ UNCHANGED <<iterVars, poolVars, mapVars>>

\* ------------------------------------------------------------ multiprocessing Pool
\* range(10)
ExampleRange == <<0, 1, 2, 3, 4, 5, 6, 7, 8, 9>>

MapInputs == SeqsUpTo(0..2, MaxMapLen) \cup {ExampleRange}

\* def my_function (index): return index
MyFunction(index) == index

\* the chunk size the pool picks: about four chunks per process
CalculateChunksize(n, p) ==
    IF n % (p * 4) # 0 THEN (n \div (p * 4)) + 1 ELSE n \div (p * 4)

ChunkSize == CalculateChunksize(Len(mapIn), procs)

\* chunks are cut until they cover the iterable
NumChunks == IF ChunkSize = 0 THEN 0 ELSE (Len(mapIn) + ChunkSize - 1) \div ChunkSize

\* the input positions of chunk k
ChunkPositions(k) ==
    {i \in 1..Len(mapIn) : k * ChunkSize < i /\ i <= (k + 1) * ChunkSize}

\* the inputs of chunk k, in input order
ChunkInputs(k) ==
    [i \in 1..Cardinality(ChunkPositions(k)) |-> mapIn[k * ChunkSize + i]]

\* the process a chunk is sent to
ActorOf(k) == k % procs

\* pool.map(...): the iterable is cut into chunks and the chunks are sent out
MapCall ==
    /\ mpc = "new"
    /\ mpc' = "running"
    /\ chunks' = [k \in 0..(NumChunks - 1) |-> ChunkInputs(k)]
    /\ mapRes' = [k \in 0..(NumChunks - 1) |-> <<>>]
    /\ mapCalls' = [i \in 1..Len(mapIn) |-> 0]
    /\ UNCHANGED <<mapIn, procs, mapOut, mapOrder>>
    /\ UNCHANGED <<iterVars, storeVars, poolVars, extVars>>

\* chunk k has not been run
Waiting(k) == \A i \in ChunkPositions(k) : mapCalls[i] = 0

\* variant: a chunk's results are filed in the first free place
FileResultFirstFree(res, k, batch) ==
    LET free == CHOOSE j \in DOMAIN res :
                    res[j] = <<>> /\ \A i \in DOMAIN res : i < j => res[i] # <<>>
    IN  [res EXCEPT ![free] = batch]

\* a chunk's results are filed under the chunk's own index
FileResult(res, k, batch) == [res EXCEPT ![k] = batch]

\* a process runs its next chunk: the function is applied to each input of it
ChunkRun(k) ==
    /\ mpc = "running"
    /\ k \in DOMAIN chunks
    /\ Waiting(k)
    /\ \A j \in DOMAIN chunks : (j < k /\ ActorOf(j) = ActorOf(k)) => ~Waiting(j)
    /\ mapRes' = FileResult(mapRes, k, [i \in DOMAIN chunks[k] |-> MyFunction(chunks[k][i])])
    /\ mapCalls' = [i \in DOMAIN mapCalls |->
          IF i \in ChunkPositions(k) THEN mapCalls[i] + 1 ELSE mapCalls[i]]
    /\ mapOrder' = Append(mapOrder, k)
    /\ UNCHANGED <<mapIn, procs, mpc, chunks, mapOut>>
    /\ UNCHANGED <<iterVars, storeVars, poolVars, extVars>>

RECURSIVE FlattenFrom(_, _)
FlattenFrom(res, k) ==
    IF k \notin DOMAIN res THEN <<>> ELSE res[k] \o FlattenFrom(res, k + 1)

\* pool.map returns once every chunk is done: the results, chunk after chunk
MapReturn ==
    /\ mpc = "running"
    /\ \A k \in DOMAIN chunks : ~Waiting(k)
    /\ mpc' = "done"
    /\ mapOut' = FlattenFrom(mapRes, 0)
    /\ UNCHANGED <<mapIn, procs, chunks, mapRes, mapCalls, mapOrder>>
    /\ UNCHANGED <<iterVars, storeVars, poolVars, extVars>>

NextMap ==
    \/ MapCall
    \/ \E k \in 0..(Len(mapIn) - 1) : ChunkRun(k)
    \/ MapReturn

\* ------------------------------------------------------------ word count
\* notebooks are modelled by the tokens of their markdown lines, as split()
\* cuts them
RawTokens == {"Ray", "ray.", "Ray,", "is", "Is", "-"}

NbTokens(nb) ==
    CASE nb = 1 -> <<"Ray", "is", "ray.">>
      [] nb = 2 -> <<"Is", "-", "Ray,">>
      [] OTHER  -> <<"is", "Ray">>

\* .lower()
Lower(tok) ==
    CASE tok = "Ray" -> "ray"
      [] tok = "Ray," -> "ray,"
      [] tok = "Is" -> "is"
      [] OTHER -> tok

\* token.strip(punct)
StripPunct(tok) ==
    CASE tok \in {"ray.", "ray,"} -> "ray"
      [] tok = "-" -> ""
      [] OTHER -> tok

Tokens == {StripPunct(Lower(tok)) : tok \in RawTokens}

\* wc = defaultdict(int)
NoCounts == [tok \in Tokens |-> 0]

\* for token in ...: token = token.strip(punct); wc[token] += 1
RECURSIVE Tally(_, _)
Tally(wc, toks) ==
    IF toks = <<>> THEN wc
    ELSE Tally([wc EXCEPT ![StripPunct(Lower(Head(toks)))] = @ + 1], Tail(toks))

\* variant: every task is handed the first shard
ShardOfFirst(t) == 0

\* [... for shard in iter3.shards()]: the t-th task is handed the t-th shard
ShardOf(t) == t - 1

\* work = [nb_word_count.remote(shard) for shard in iter3.shards()]
WcSubmit ==
    /\ ipc = "built"
    /\ wpc = "new"
    /\ wpc' = "running"
    /\ work' = [t \in 1..num_shards |-> [shard |-> ShardOf(t), st |-> "running", wc |-> NoCounts]]
    /\ readers' = [s \in ShardIds |-> {}]
    /\ UNCHANGED <<wc_sum, wcOrder>>
    /\ UNCHANGED <<readVars, backlogVars, batchVars>>
    /\ UNCHANGED <<iterVars, storeVars, poolVars, mapVars>>

\* one turn of "for nb_path in shard": the task takes the shard's next notebook
\* and tallies its tokens
WcPull(t) ==
    /\ wpc = "running"
    /\ t \in DOMAIN work
    /\ work[t].st = "running"
    /\ LET s == work[t].shard
       IN  /\ cursor[s] < Len(shards[s])
           /\ cursor' = [cursor EXCEPT ![s] = @ + 1]
           /\ work' = [work EXCEPT ![t].wc = Tally(@, NbTokens(shards[s][cursor[s] + 1]))]
           /\ readers' = [readers EXCEPT ![s] = @ \cup {t}]
    /\ UNCHANGED <<wpc, wc_sum, wcOrder>>
    /\ UNCHANGED <<items, num_shards, ipc, shards, transforms, mode, step, cur, total,
                   fut, futVal, produced, appliedLog>>
    /\ UNCHANGED gatherVars
    /\ UNCHANGED <<readVars, backlogVars, batchVars>>
    /\ UNCHANGED <<storeVars, poolVars, mapVars>>

\* the shard is exhausted: the loop ends and the task returns wc
WcReturn(t) ==
    /\ wpc = "running"
    /\ t \in DOMAIN work
    /\ work[t].st = "running"
    /\ cursor[work[t].shard] >= Len(shards[work[t].shard])
    /\ work' = [work EXCEPT ![t].st = "done"]
    /\ wcOrder' = Append(wcOrder, t)
    /\ UNCHANGED <<wpc, wc_sum, readers>>
    /\ UNCHANGED <<readVars, backlogVars, batchVars>>
    /\ UNCHANGED <<iterVars, storeVars, poolVars, mapVars>>

\* variant: wc_sum[token] = count
AddCountsOverwrites(acc, wc) == [tok \in Tokens |-> IF wc[tok] > 0 THEN wc[tok] ELSE acc[tok]]

\* for token, count in wc.items(): wc_sum[token] += count
AddCounts(acc, wc) == [tok \in Tokens |-> acc[tok] + wc[tok]]

RECURSIVE MergeFrom(_, _, _)
MergeFrom(acc, w, t) ==
    IF t > Len(w) THEN acc ELSE MergeFrom(AddCounts(acc, w[t].wc), w, t + 1)

\* for wc in ray.get(work): ...: the get returns once every task has returned
WcMerge ==
    /\ wpc = "running"
    /\ \A t \in DOMAIN work : work[t].st = "done"
    /\ wpc' = "done"
    /\ wc_sum' = MergeFrom(NoCounts, work, 1)
    /\ UNCHANGED <<work, readers, wcOrder>>
    /\ UNCHANGED <<readVars, backlogVars, batchVars>>
    /\ UNCHANGED <<iterVars, storeVars, poolVars, mapVars>>

NextWc ==
    \/ FromItemsCall
    \/ WcSubmit
    \/ \E t \in 1..MaxShards : WcPull(t)
    \/ \E t \in 1..MaxShards : WcReturn(t)
    \/ WcMerge

\* ------------------------------------------------------------ specification
NextIter ==
    \/ FromItemsCall
    \/ \E name \in TransformNames : ForEach(name)
    \/ \E m \in {"sync", "async"} : Gather(m)
    \/ \E s \in ShardIds : ActorPull(s)
    \/ \E s \in ShardIds : ActorApply(s)
    \/ SyncNext
    \/ SyncWake
    \/ AsyncNext
    \/ AsyncWake

\* from_items(...).batch(n) gathered
NextBatch ==
    \/ FromItemsCall
    \/ BatchCall
    \/ \E m \in {"sync", "async"} : batchBuf # <<>> /\ Gather(m)
    \/ \E s \in ShardIds : BatchPull(s)
    \/ SyncNext
    \/ SyncWake
    \/ AsyncNext
    \/ AsyncWake

NextStore ==
    \/ \E v \in PutVals : Put(v)
    \/ \E fn \in Fns : Submit(fn)
    \/ \E h \in 1..MaxRefs, t \in Timeouts : GetCall(h, t)
    \/ GetWake
    \/ GetExpire
    \/ \E w \in Workers : WorkerStart(w)
    \/ \E w \in Workers : WorkerReturn(w)
    \/ \E w \in Workers : WorkerRaise(w)
    \/ Tick

\* the functions called several at a time
ListFns == {"my_function", "slow_function"}

\* ray.get on a list of refs
NextList ==
    \/ \E v \in PutVals : Put(v)
    \/ \E fn \in ListFns : Submit(fn)
    \/ \E hs \in RefLists(MaxRefs) : GetListCall(hs)
    \/ GetListWake
    \/ \E w \in Workers : WorkerStart(w)
    \/ \E w \in Workers : WorkerReturn(w)
    \/ \E w \in Workers : WorkerRaise(w)
    \/ Tick

\* get_many on a list of refs
NextMany ==
    \/ \E fn \in ListFns : Submit(fn)
    \/ \E hs \in RefLists(MaxRefs), t \in ManyTimeouts : GetManyCall(hs, t)
    \/ GetManyWake
    \/ GetManyExpire
    \/ \E w \in Workers : WorkerStart(w)
    \/ \E w \in Workers : WorkerReturn(w)
    \/ Tick

\* the worker pool with crashes and restarts
NextCrash ==
    \/ \E fn \in Fns : Submit(fn)
    \/ \E w \in Workers : WorkerStart(w)
    \/ \E w \in Workers : WorkerReturn(w)
    \/ \E w \in Workers : WorkerRaise(w)
    \/ \E w \in Workers : WorkerCrash(w)
    \/ \E w \in Workers : WorkerRestart(w)
    \/ Tick

\* the object store read from several processes
NextRead ==
    \/ \E v \in PutVals : Put(v)
    \/ \E fn \in ListFns : Submit(fn)
    \/ \E r \in Readers, h \in 1..MaxRefs : ReaderGet(r, h)
    \/ \E w \in Workers : WorkerStart(w)
    \/ \E w \in Workers : WorkerReturn(w)
    \/ \E w \in Workers : WorkerRaise(w)
    \/ Tick

\* submission against a bounded backlog, and retrieval
NextBacklog ==
    \/ \E fn \in LoopFns : SubmitBounded(fn)
    \/ \E h \in 1..MaxTasks : GetCall(h, NoTimeout)
    \/ GetWake
    \/ \E w \in Workers : WorkerStart(w)
    \/ \E w \in Workers : WorkerReturn(w)
    \/ Tick

\* tasks submitted and retrieved one by one or as a list, without timeouts
NextGets ==
    \/ \E fn \in LoopFns : Submit(fn)
    \/ \E h \in 1..MaxRefs : GetCall(h, NoTimeout)
    \/ GetWake
    \/ \E hs \in RefLists(MaxRefs) : GetListCall(hs)
    \/ GetListWake
    \/ \E w \in Workers : WorkerStart(w)
    \/ \E w \in Workers : WorkerReturn(w)
    \/ \E w \in Workers : WorkerRaise(w)
    \/ Tick

Init == InitIter /\ InitStore /\ PoolFresh /\ mapIn = <<>> /\ procs = 1 /\ MapFresh /\ ExtFresh

Next == NextIter \/ NextStore \/ NextList \/ NextMany \/ NextCrash \/ NextMap \/ NextRead \/ NextWc \/ NextBacklog \/ NextBatch \/ NextGets

Spec == Init /\ [][Next]_vars

\* the parallel iterator walkthrough on its own
InitIterOnly == InitIter /\ InitStore /\ PoolFresh /\ mapIn = <<>> /\ procs = 1 /\ MapFresh /\ ExtFresh

SpecIter == InitIterOnly /\ [][NextIter]_vars

\* the remote objects / remote functions walkthrough on its own
InitStoreOnly ==
    /\ items = <<>> /\ num_shards = 1 /\ IterFresh
    /\ InitStore /\ PoolFresh
    /\ mapIn = <<>> /\ procs = 1 /\ MapFresh /\ ExtFresh

SpecStore == InitStoreOnly /\ [][NextStore]_vars

\* the multiprocessing Pool walkthrough on its own
InitMapOnly ==
    /\ items = <<>> /\ num_shards = 1 /\ IterFresh
    /\ InitStore /\ PoolFresh
    /\ mapIn \in MapInputs /\ procs \in 1..MaxProcs /\ MapFresh /\ ExtFresh

SpecMap == InitMapOnly /\ [][NextMap]_vars

SpecList == InitStoreOnly /\ [][NextList]_vars

SpecMany == InitStoreOnly /\ [][NextMany]_vars

SpecCrash == InitStoreOnly /\ [][NextCrash]_vars

SpecRead == InitStoreOnly /\ [][NextRead]_vars

SpecBacklog == InitStoreOnly /\ [][NextBacklog]_vars

\* a batched iterator on its own
SpecBatch == InitIterOnly /\ [][NextBatch]_vars

\* the word count on its own
SpecWc == InitIterOnly /\ [][NextWc]_vars

\* crashed workers are restarted, workers take queued tasks and finish them,
\* and time passes
FairCrash ==
    /\ SpecCrash
    /\ WF_vars(Tick)
    /\ \A w \in Workers : WF_vars(WorkerStart(w))
    /\ \A w \in Workers : WF_vars(WorkerReturn(w))
    /\ \A w \in Workers : WF_vars(WorkerRestart(w))

\* the shard actors serve the requests made to them, and the consumer's loop
\* keeps calling next()
FairIter ==
    /\ SpecIter
    /\ \A s \in 0..(MaxShards - 1) : WF_vars(s \in ShardIds /\ ActorPull(s))
    /\ \A s \in 0..(MaxShards - 1) : WF_vars(s \in ShardIds /\ ActorApply(s))
    /\ WF_vars(SyncNext)
    /\ WF_vars(SyncWake)
    /\ WF_vars(AsyncNext)
    /\ WF_vars(AsyncWake)

SpecGets == InitStoreOnly /\ [][NextGets]_vars

\* workers take queued tasks and finish them, time passes, and a blocked
\* retrieval returns once what it waits for is there
FairGets ==
    /\ SpecGets
    /\ WF_vars(Tick)
    /\ \A w \in Workers : WF_vars(WorkerStart(w))
    /\ \A w \in Workers : WF_vars(WorkerReturn(w))
    /\ WF_vars(GetWake)
    /\ WF_vars(GetListWake)

\* workers take queued tasks and finish them, and time passes
FairStore ==
    /\ SpecStore
    /\ WF_vars(Tick)
    /\ \A w \in Workers : WF_vars(WorkerStart(w))
    /\ \A w \in Workers : WF_vars(WorkerReturn(w))

\* ------------------------------------------------------------ properties: sharding
RECURSIVE ConcatShards(_, _, _)
ConcatShards(sh, k, n) ==
    IF k >= n THEN <<>> ELSE sh[k] \o ConcatShards(sh, k + 1, n)

Count(q, v) == Cardinality({i \in DOMAIN q : q[i] = v})

IsPrefix(p, q) == Len(p) <= Len(q) /\ \A i \in DOMAIN p : p[i] = q[i]

\* C1: from_items(S, N) gives N shards whose concatenation in partition order
\* is a permutation of S: no element occurrence is lost or duplicated.
C1_ShardsPermutation ==
    ipc # "new" =>
        LET cat == ConcatShards(shards, 0, num_shards)
        IN  /\ DOMAIN shards = 0..(num_shards - 1)
            /\ Len(cat) = Len(items)
            /\ \A i \in DOMAIN items : Count(cat, items[i]) = Count(items, items[i])

C1_Witness ==
    /\ ipc = "built"
    /\ num_shards = 3
    /\ Len(items) = 3
    /\ items[1] = items[3]
    /\ items[1] # items[2]

\* C2: sharding is round-robin and order preserving: the element at 0-based
\* position i is element (i div N) of shard (i mod N); [1,2,3,4,5] over two
\* shards gives [1,3,5] and [2,4].
C2_RoundRobin ==
    ipc # "new" =>
        /\ \A i \in 0..(Len(items) - 1) :
              /\ Len(shards[i % num_shards]) >= (i \div num_shards) + 1
              /\ shards[i % num_shards][(i \div num_shards) + 1] = items[i + 1]
        /\ \A k \in 0..(num_shards - 1) :
              Len(shards[k]) = Cardinality({i \in 0..(Len(items) - 1) : i % num_shards = k})
        /\ (items = ExampleItems /\ num_shards = 2) =>
              (shards[0] = <<1, 3, 5>> /\ shards[1] = <<2, 4>>)

C2_Witness ==
    /\ ipc = "built"
    /\ items = ExampleItems
    /\ num_shards = 2
    /\ shards[0] = <<1, 3, 5>>
    /\ shards[1] = <<2, 4>>

\* ------------------------------------------------------------ properties: gather
\* the order gather_sync reads in: round r takes, in shard order, the r-th
\* item of every shard that has one
RECURSIVE SyncRound(_, _, _)
SyncRound(lens, r, k) ==
    IF k >= num_shards THEN <<>>
    ELSE (IF lens[k] >= r THEN <<(<<k, r>>)>> ELSE <<>>) \o SyncRound(lens, r, k + 1)

RECURSIVE SyncSchedule(_, _, _)
SyncSchedule(lens, r, maxr) ==
    IF r > maxr THEN <<>> ELSE SyncRound(lens, r, 0) \o SyncSchedule(lens, r + 1, maxr)

ShardLens == [k \in ShardIds |-> Len(shards[k])]

\* C3: gather_sync over the unmodified shards yields the items of S in their
\* input order, whatever the interleaving of the shard actors.
C3_SyncInputOrder ==
    (mode = "sync" /\ transforms = <<>>) =>
        /\ IsPrefix(out, items)
        /\ gpc = "done" => out = items

C3_Witness ==
    /\ mode = "sync" /\ transforms = <<>> /\ gpc = "done"
    /\ items = ExampleItems /\ num_shards = 2
    /\ out = <<1, 2, 3, 4, 5>>

\* C4: gather_sync is deterministic: the k-th item yielded is always the item
\* the round-robin schedule fixes for k from N and the shard lengths, and it
\* is the value that shard's actor delivered for it, whatever the scheduling.
C4_SyncDeterministic ==
    mode = "sync" =>
        LET sched == SyncSchedule(ShardLens, 1, Len(items))
        IN  /\ Len(out) <= Len(sched)
            /\ Len(outSrc) = Len(out)
            /\ \A k \in DOMAIN out :
                  /\ outSrc[k] = sched[k]
                  /\ outSrc[k][2] <= Len(produced[outSrc[k][1]])
                  /\ out[k] = produced[outSrc[k][1]][outSrc[k][2]]
            /\ gpc = "done" => Len(out) = Len(sched)

C4_Witness ==
    /\ mode = "sync" /\ gpc = "done"
    /\ num_shards = 3 /\ Len(items) = 5
    /\ transforms = <<"CumulativeSum">>
    /\ Len(out) = 5

\* the indices, in yield order, of the items taken from shard s
RECURSIVE YieldedOf(_, _)
YieldedOf(src, s) ==
    IF src = <<>> THEN <<>>
    ELSE (IF Head(src)[1] = s THEN <<Head(src)[2]>> ELSE <<>>) \o YieldedOf(Tail(src), s)

\* C5: gather_async yields every item of every shard exactly once and keeps
\* the order inside each shard; nothing orders items of different shards.
C5_AsyncPerShardOrder ==
    mode = "async" =>
        /\ Len(outSrc) = Len(out)
        /\ \A s \in ShardIds :
              /\ Len(YieldedOf(outSrc, s)) <= Len(shards[s])
              /\ YieldedOf(outSrc, s) = UpTo(1, Len(YieldedOf(outSrc, s)))
              /\ gpc = "done" => Len(YieldedOf(outSrc, s)) = Len(shards[s])
        /\ \A k \in DOMAIN out :
              /\ outSrc[k][2] <= Len(produced[outSrc[k][1]])
              /\ out[k] = produced[outSrc[k][1]][outSrc[k][2]]
              /\ transforms = <<>> => out[k] = shards[outSrc[k][1]][outSrc[k][2]]

C5_Witness ==
    /\ mode = "async" /\ gpc = "done"
    /\ items = ExampleItems /\ num_shards = 2
    /\ transforms = <<>>
    /\ out = <<2, 4, 1, 3, 5>>

\* C6: fetch ordering of for_each: inside a shard every transform of the chain
\* is applied exactly once, in chain order, to item k, and all of them have
\* completed before item k+1 is pulled from the shard's source.
C6_FetchOrdering ==
    ipc = "gathering" =>
        \A s \in ShardIds :
            /\ Len(appliedLog[s]) = cursor[s]
            /\ \A k \in 1..cursor[s] :
                  IF k < cursor[s] \/ step[s] = 0
                  THEN appliedLog[s][k] = UpTo(1, Len(transforms))
                  ELSE appliedLog[s][k] = UpTo(1, step[s] - 1)

C6_Witness ==
    /\ ipc = "gathering"
    /\ Len(transforms) = 2
    /\ \E s \in ShardIds : cursor[s] = 2 /\ step[s] = 2

\* ------------------------------------------------------------ properties: object store
\* C7: a ref reaches at most one terminal state: once it holds a value or an
\* error it never changes to the other and its content is never replaced.
C7_ResolveOnce ==
    [][\A h \in 1..refs : Resolved(h) => store'[h] = store[h]]_vars

C7_Witness ==
    /\ refs = 2
    /\ store[1].st = "value" /\ store[1].val = 9
    /\ store[2].st = "error"
    /\ \A w \in Workers : ~worker[w].busy

\* a step in which a ray.get ends in GetTimeoutError
EndsInTimeout ==
    /\ dpc' = "idle"
    /\ lastGet'.kind = "timeout"
    /\ (dpc = "blocked" \/ lastGet' # lastGet)

\* C8: a get that ends in Timeout changes nothing: the ref is still pending,
\* its task is neither cancelled nor submitted again, and the store, the
\* queue, the workers and every other ref are as before.
C8_TimeoutNoEffect ==
    [][EndsInTimeout =>
          /\ UNCHANGED <<refs, origin, store, queue, worker>>
          /\ store'[lastGet'.ref].st = "pending"]_vars

C8_Witness ==
    /\ lastGet.kind = "timeout"
    /\ dpc = "idle"
    /\ lastWaited
    /\ store[lastGet.ref].st = "pending"
    /\ \E w \in Workers :
          /\ worker[w].busy /\ worker[w].ref = lastGet.ref
          /\ worker[w].fn = "long_running_function"

\* C9: get(ref, timeout=0) on a ref that is unresolved when it is called
\* fails with Timeout in that very step: it never blocks.
C9_ZeroTimeoutNeverBlocks ==
    [][\A h \in 1..refs :
          (~Resolved(h) /\ GetCall(h, 0)) =>
              (lastGet' = TimeoutResult(h) /\ dpc' = "idle")]_vars

C9_Witness ==
    /\ lastGet.kind = "timeout"
    /\ dpc = "idle"
    /\ ~lastWaited
    /\ \E k \in DOMAIN queue : queue[k].ref = lastGet.ref

\* C10: a Timeout is recoverable: a get on a ref that timed out earlier returns
\* the ref's result once the task has resolved it, and under fair workers a
\* ref that timed out is eventually resolved, so that a retry succeeds.
C10_TimeoutRecoverable ==
    /\ [][\A h \in 1..refs :
            (h \in timedOut /\ Resolved(h) /\ \E t \in Timeouts : GetCall(h, t)) =>
                (lastGet' = GetResult(h) /\ dpc' = "idle")]_vars
    /\ \A h \in 1..MaxRefs :
            (h \in timedOut) ~> (h \in timedOut /\ Resolved(h))

C10_Witness ==
    /\ lastGet.kind = "value"
    /\ lastGet.ref \in timedOut
    /\ lastGet.val = NoneCode
    /\ dpc = "idle"

\* ------------------------------------------------------------ properties: put, submit, get
\* the driver is between two calls and a ref can still be created
CanCreate == dpc = "idle" /\ refs < MaxRefs

\* C11: put then get is a round trip: put(v) is always possible, the ref it
\* returns is resolved to v from the moment it exists, and every get on it
\* returns v without blocking (put(1) then get gives 1).
C11_PutGetRoundTrip ==
    /\ CanCreate => \A v \in PutVals : ENABLED Put(v)
    /\ \A h \in 1..refs :
          origin[h].fn = "put" => store[h] = [st |-> "value", val |-> origin[h].val]
    /\ (lastGet.kind # "none" /\ origin[lastGet.ref].fn = "put") =>
          /\ lastGet.kind = "value"
          /\ lastGet.val = origin[lastGet.ref].val
          /\ ~lastWaited

C11_Witness ==
    /\ lastGet.kind = "value"
    /\ lastGet.val = 1
    /\ origin[lastGet.ref] = [fn |-> "put", val |-> 1]
    /\ dpc = "idle"

\* C12: results are keyed to the handle: the value a ref resolves to is a
\* result of the function that ref was created for, and what a get returned
\* for a ref is that ref's stored result, whatever the order in which the
\* tasks finished and in which the refs were retrieved.
C12_ResultKeyedToHandle ==
    /\ \A h \in 1..refs :
          (origin[h].fn \in Fns /\ store[h].st = "value") =>
              store[h].val \in ReturnVals(origin[h].fn)
    /\ \A w \in Workers :
          worker[w].busy =>
              (worker[w].fn = origin[worker[w].ref].fn /\ ~Resolved(worker[w].ref))
    /\ \A k \in DOMAIN queue : queue[k].fn = origin[queue[k].ref].fn
    /\ lastGet.kind \in {"value", "error"} => lastGet = GetResult(lastGet.ref)

\* the second task finished first and was retrieved first
C12_Witness ==
    /\ refs = 2
    /\ origin[1].fn = "long_running_function"
    /\ origin[2].fn = "slow_function"
    /\ ~Resolved(1)
    /\ lastGet = [ref |-> 2, kind |-> "value", val |-> 9]

\* C14: submit does not block: it is possible whenever the driver is between
\* calls, whatever the workers are doing; it returns a new ref that is still
\* unresolved, and it changes nothing else the caller can see (no other ref,
\* no worker, no earlier result).
C14_SubmitNonBlocking ==
    /\ [](CanCreate => \A fn \in Fns : ENABLED Submit(fn))
    /\ [][\A fn \in Fns :
            Submit(fn) =>
                /\ refs' = refs + 1
                /\ store'[refs + 1].st = "pending"
                /\ dpc' = "idle"
                /\ \A h \in 1..refs : store'[h] = store[h]
                /\ UNCHANGED <<worker, lastGet, lastWaited, timedOut>>]_vars

\* every submitted ref exists and no task has started
C14_Witness ==
    /\ refs >= 2
    /\ \A h \in 1..refs : origin[h].fn \in Fns /\ ~Resolved(h)
    /\ Len(queue) = refs
    /\ \A w \in Workers : ~worker[w].busy
    /\ dpc = "idle"

\* C15: a task whose body raises resolves its own ref, and no other, to the
\* failure: the step changes no other ref, no other worker and no queued task,
\* nothing is raised in the driver until that ref is retrieved, and a sibling
\* still resolves to a result of its own function.
C15_FailureOnOwnHandle ==
    /\ [][\A w \in Workers :
            WorkerRaise(w) =>
                /\ store'[worker[w].ref].st = "error"
                /\ \A h \in 1..refs : h # worker[w].ref => store'[h] = store[h]
                /\ \A u \in Workers : u # w => worker'[u] = worker[u]
                /\ UNCHANGED <<queue, dpc, lastGet>>]_vars
    /\ [](\A h \in 1..refs :
            /\ store[h].st = "error" => origin[h].fn \in Fns
            /\ (origin[h].fn \in Fns /\ store[h].st = "value") =>
                  store[h].val \in ReturnVals(origin[h].fn))
    /\ [](lastGet.kind = "error" => store[lastGet.ref].st = "error")

\* the first task failed and its failure was retrieved; its sibling returned
C15_Witness ==
    /\ refs = 2
    /\ store[1].st = "error"
    /\ lastGet = [ref |-> 1, kind |-> "error", val |-> 0]
    /\ origin[2].fn = "slow_function"
    /\ store[2] = [st |-> "value", val |-> 9]

\* C17: in the timeout example the task sleeps 4 and its ref is retrieved at
\* once with timeout=4: the get, called before the task has run for any time,
\* never returns the task's value.
C17_ExampleAlwaysTimesOut ==
    [][(/\ dpc = "blocked"
        /\ getFresh
        /\ getTimeout = GetTimeout
        /\ origin[getRef].fn = "long_running_function"
        /\ dpc' = "idle") => lastGet'.kind # "value"]_vars

\* ------------------------------------------------------------ properties: lists of refs
\* the values of a list retrieval, in the order returned
ListVals(l) == [i \in DOMAIN l.vals |-> l.vals[i].val]

\* C13: ray.get on a list of refs returns a list of the same length whose
\* i-th element is the value of the i-th ref, whatever order the refs were
\* resolved in; get([put(0), put(1), put(2)]) returns [0, 1, 2].
C13_ListGetInOrder ==
    lastList.kind = "values" =>
        /\ Len(ListVals(lastList)) = Len(lastList.refs)
        /\ \A i \in DOMAIN lastList.refs :
              /\ store[lastList.refs[i]].st = "value"
              /\ ListVals(lastList)[i] = store[lastList.refs[i]].val
              /\ origin[lastList.refs[i]].fn = "put" =>
                    ListVals(lastList)[i] = origin[lastList.refs[i]].val

\* the list names the refs against creation order and mixes a put with a task
C13_Witness ==
    /\ lastList.kind = "values"
    /\ lastList.refs = <<2, 1>>
    /\ origin[1] = [fn |-> "put", val |-> 0]
    /\ origin[2].fn = "slow_function"
    /\ ListVals(lastList) = <<9, 0>>
    /\ lastWaited

\* a step in which a get_many hands its report to the caller
ManyReports ==
    /\ dpc' = "idle"
    /\ lastList'.kind \in {"all", "partial"}
    /\ (dpc = "blockedMany" \/ lastList' # lastList)

\* C19: get_many reports partial results: in the report, also when the shared
\* timeout has expired, every ref of the list that is resolved carries its
\* result and every unresolved one is reported as pending; nothing resolved
\* is left out.
C19_PartialResultsReported ==
    [][ManyReports =>
          /\ Len(lastList'.vals) = Len(lastList'.refs)
          /\ \A i \in DOMAIN lastList'.refs :
                IF Resolved(lastList'.refs[i])
                THEN lastList'.vals[i] = GetResult(lastList'.refs[i])
                ELSE lastList'.vals[i] = PendingResult(lastList'.refs[i])]_vars

\* the timeout expired with one ref resolved and one still pending
C19_Witness ==
    /\ lastList.kind = "partial"
    /\ lastWaited
    /\ Len(lastList.refs) = 2
    /\ \E i \in 1..2 : lastList.vals[i].kind = "value" /\ lastList.vals[i].val = 9
    /\ \E i \in 1..2 : lastList.vals[i].kind = "pending"

\* ------------------------------------------------------------ properties: worker pool
\* the tasks a worker is running: none or one
Running(w) == IF worker[w].busy THEN {worker[w].ref} ELSE {}

\* C20: every worker runs at most one task, and no task is run by two workers
\* at the same time: a running task is an unresolved submitted task that no
\* longer waits in the queue, and a crashed worker runs nothing.
C20_OneTaskPerWorker ==
    /\ \A w \in Workers :
          /\ Cardinality(Running(w)) <= 1
          /\ Running(w) \subseteq {h \in 1..refs : ~Resolved(h)}
          /\ \A k \in DOMAIN queue : queue[k].ref \notin Running(w)
          /\ w \in failed => Running(w) = {}
    /\ \A u, w \in Workers : u # w => Running(u) \cap Running(w) = {}

C20_Witness ==
    /\ worker[1].busy /\ worker[2].busy
    /\ worker[1].ref = 2 /\ worker[2].ref = 1
    /\ crashes = 1

\* a step in which a task body raises or a worker crashes
FailureAt(w) == WorkerRaise(w) \/ WorkerCrash(w)

\* C16: a failing task body or the crash of one worker does not take the pool
\* down or corrupt other work: the step touches no other worker, no queued
\* task and no ref but the failing task's own; a ref resolves only to a result
\* of its own function; and every submitted task still gets resolved.
C16_FailureIsolated ==
    /\ [][\A w \in Workers :
            FailureAt(w) =>
                /\ \A u \in Workers : u # w => worker'[u] = worker[u]
                /\ queue' = queue
                /\ \A h \in 1..refs : h \notin Running(w) => store'[h] = store[h]]_vars
    /\ [](\A h \in 1..refs :
            store[h].st = "value" => store[h].val \in ReturnVals(origin[h].fn))
    /\ \A h \in 1..MaxRefs : (h <= refs) ~> (h <= refs /\ Resolved(h))

\* one worker has crashed with its task while the other task is in flight
C16_Witness ==
    /\ failed = {1}
    /\ refs = 2
    /\ store[1].st = "error"
    /\ worker[2].busy /\ worker[2].ref = 2 /\ worker[2].elapsed = 1

\* ------------------------------------------------------------ properties: Pool.map
\* C18: pool.map returns the results in input order: the i-th result is the
\* function applied to the i-th input, whatever order the chunks finished
\* in, and the function is called exactly once on every input;
\* map(my_function, range(10)) yields 0, 1, ..., 9.
C18_MapInInputOrder ==
    /\ mpc # "new" => \A i \in DOMAIN mapCalls : mapCalls[i] <= 1
    /\ mpc = "done" =>
          /\ Len(mapOut) = Len(mapIn)
          /\ \A i \in DOMAIN mapIn : mapOut[i] = MyFunction(mapIn[i])
          /\ \A i \in DOMAIN mapIn : mapCalls[i] = 1
          /\ mapIn = ExampleRange => mapOut = <<0, 1, 2, 3, 4, 5, 6, 7, 8, 9>>

\* range(10) on two processes, the second chunk finishing before the first
C18_Witness ==
    /\ mpc = "done"
    /\ mapIn = ExampleRange
    /\ procs = 2
    /\ mapOrder[1] = 1
    /\ mapOut = ExampleRange

\* ------------------------------------------------------------ properties: readers
\* every result a ray.get has handed back so far, whoever made the call
Returned == {e.res : e \in reads}

\* C21: stored values are write-once: every get of a resolved ref, by any
\* reader, before or after other refs are resolved,
\* hands back the same result, and that result is still what the store holds
\* for the ref.
C21_WriteOnceReads ==
    /\ \A a \in Returned : a.ref \in 1..refs /\ Resolved(a.ref) /\ a = GetResult(a.ref)
    /\ \A a \in Returned, b \in Returned : a.ref = b.ref => a = b

\* two readers have read the result of the same task, and another task was
\* resolved to a different result and read as well
C21_Witness ==
    \E a \in reads, b \in reads, c \in reads :
        /\ a.reader # b.reader
        /\ a.res.ref = b.res.ref
        /\ c.res.ref # a.res.ref
        /\ c.res.val # a.res.val
        /\ origin[a.res.ref].fn # "put"
        /\ origin[c.res.ref].fn # "put"

\* ------------------------------------------------------------ properties: word count
TasksOn(s) == {t \in DOMAIN work : work[t].shard = s}

\* C22: each shard is read by at most one consumer: every shard of iter3 is
\* handed to exactly one nb_word_count task, at no time do two running tasks
\* hold the same shard, and a shard's cursor is only ever advanced by the one
\* task that holds it.
C22_OneReaderPerShard ==
    wpc # "new" =>
        \A s \in ShardIds :
            /\ Cardinality(TasksOn(s)) = 1
            /\ Cardinality({t \in TasksOn(s) : work[t].st = "running"}) <= 1
            /\ Cardinality(readers[s]) <= 1
            /\ readers[s] \subseteq TasksOn(s)

\* two tasks are running at once, each part-way through its own shard
C22_Witness ==
    /\ wpc = "running"
    /\ num_shards >= 2
    /\ \E t \in DOMAIN work, u \in DOMAIN work :
        /\ t # u
        /\ work[t].st = "running" /\ work[u].st = "running"
        /\ readers[work[t].shard] = {t} /\ readers[work[u].shard] = {u}
        /\ cursor[work[t].shard] < Len(shards[work[t].shard])

RECURSIVE CountAll(_, _)
CountAll(nbs, tok) ==
    IF nbs = <<>> THEN 0
    ELSE Count([k \in DOMAIN NbTokens(Head(nbs)) |-> StripPunct(Lower(NbTokens(Head(nbs))[k]))], tok)
         + CountAll(Tail(nbs), tok)

\* C29: the aggregated count of every token is its count over all the input
\* notebooks, for every number of shards, every list of notebooks and every
\* order in which the tasks finish.
C29_CountIndependentOfSharding ==
    wpc = "done" =>
        /\ DOMAIN wc_sum = Tokens
        /\ \A tok \in Tokens : wc_sum[tok] = CountAll(items, tok)

\* three shards, tasks finished out of list order, and a token counted by
\* more than one task
C29_Witness ==
    /\ wpc = "done"
    /\ num_shards = 3
    /\ wcOrder = <<3, 1, 2>>
    /\ \E t \in DOMAIN work, u \in DOMAIN work :
        t # u /\ work[t].wc["ray"] > 0 /\ work[u].wc["ray"] > 0
    /\ wc_sum["ray"] >= 3

\* ------------------------------------------------------------ properties: backlog
\* C23: bounded-queue backpressure: the tasks submitted and not yet started
\* never number more than the backlog bound; a submit made while the backlog is
\* full ends in PoolExhausted, and then no ref is created, no task is enqueued
\* and nothing else changes; a submit that creates a ref was made with room in
\* the backlog.
C23_BoundedBacklog ==
    /\ [](Len(queue) <= BacklogBound)
    /\ [][(lastSubmit' = "PoolExhausted" /\ lastSubmit # "PoolExhausted")
            => (BacklogFull /\ UNCHANGED storeVars)]_vars
    /\ [][refs' > refs
            => (~BacklogFull /\ lastSubmit' = "ok" /\ Len(queue') <= BacklogBound)]_vars

\* a submit was refused while the model would still have allowed a new ref
C23_Witness ==
    /\ lastSubmit = "PoolExhausted"
    /\ Len(queue) = BacklogBound
    /\ refs < MaxTasks
    /\ refs = Len(store)

AllBusy == \A w \in Workers : worker[w].busy

IsTask(h) == origin[h].fn # "put"

\* a worker has taken the task of ref h out of the queue at some time
HasStarted(h) == Resolved(h) \/ \E w \in Workers : worker[w].busy /\ worker[w].ref = h

\* C25: without priority hints dispatch is FIFO: if task A was submitted before
\* task B, then B has not started running unless A has.
C25_FifoDispatch ==
    \A a \in 1..refs, b \in 1..refs :
        (a < b /\ IsTask(a) /\ IsTask(b) /\ HasStarted(b)) => HasStarted(a)

\* the first task is running and the second still waits, with a worker free
\* to take it
C25_Witness ==
    /\ refs = 2
    /\ Len(queue) = 1
    /\ queue[1].ref = 2
    /\ \E w \in Workers : worker[w].busy /\ worker[w].ref = 1 /\ worker[w].elapsed > 0
    /\ \E w \in Workers : Idle(w)

\* ------------------------------------------------------------ properties: laziness
\* par_iter_next calls made to shard s so far
RequestsTo(s) == Len(produced[s]) + (IF fut[s] \in {"pending", "stop"} THEN 1 ELSE 0)

RECURSIVE SumTo(_, _)
SumTo(q, i) == IF i = 0 THEN 0 ELSE q[i] + SumTo(q, i - 1)

\* C27: for_each(CumulativeSum()) keeps one running total per shard: the total
\* emitted with an item is the sum of the items of its own shard up to and
\* including it; for [1,2,3,4,5] over two shards gather_sync yields
\* (1,1),(2,2),(4,3),(6,4),(9,5).
C27_PerShardState ==
    (ipc = "gathering" /\ transforms = <<"CumulativeSum">>) =>
        /\ \A k \in DOMAIN out :
              LET s == outSrc[k][1]
                  i == outSrc[k][2]
              IN  out[k] = <<SumTo(shards[s], i), shards[s][i]>>
        /\ (items = ExampleItems /\ num_shards = 2 /\ mode = "sync" /\ gpc = "done")
              => out = << <<1, 1>>, <<2, 2>>, <<4, 3>>, <<6, 4>>, <<9, 5>> >>

\* the example has been gathered to its end
C27_Witness ==
    /\ ipc = "gathering"
    /\ transforms = <<"CumulativeSum">>
    /\ items = ExampleItems /\ num_shards = 2 /\ mode = "sync" /\ gpc = "done"
    /\ Len(out) = 5
    /\ out[3] = <<4, 3>>

\* ------------------------------------------------------------ properties: termination
\* item i of shard s has been yielded exactly once
YieldedOnce(s, i) == Cardinality({k \in DOMAIN outSrc : outSrc[k] = <<s, i>>}) = 1

\* C28: gather_sync and gather_async over finite shards terminate after
\* yielding every item exactly once, also when the shards have unequal
\* lengths: the iterator ends only when every shard is drained, and under fair
\* actors a consumer that keeps calling next() reaches that end.
C28_GatherTerminates ==
    /\ [](gpc = "done" =>
            /\ Len(out) = Len(items)
            /\ \A s \in ShardIds : \A i \in 1..Len(shards[s]) : YieldedOnce(s, i))
    /\ (ipc = "gathering") ~> (gpc = "done")

\* [1,3,5] and [2,4] gathered to the end, the short shard exhausted first
C28_Witness ==
    /\ gpc = "done"
    /\ items = ExampleItems
    /\ num_shards = 2
    /\ mode = "async"
    /\ transforms = <<>>
    /\ Len(out) = 5
    /\ out[5] = 5
    /\ out[4] = 3

\* ------------------------------------------------------------ properties: progress
\* C30: under fair scheduling of the workers and with no crash, every
\* submitted task eventually resolves its ref, a get without timeout on a ref
\* eventually returns the ref's result, and a get on a list of refs
\* eventually returns.
C30_EveryTaskResolves ==
    /\ \A h \in 1..MaxRefs : (h <= refs) ~> (h <= refs /\ Resolved(h))
    /\ (dpc # "idle") ~> (dpc = "idle")
    /\ [][(dpc = "blocked" /\ dpc' = "idle") => lastGet' = GetResult(getRef)]_vars
    /\ [][(dpc = "blockedList" /\ dpc' = "idle")
            => (lastList'.refs = getRefs /\ lastList'.kind # "none")]_vars

\* the get on the list of all refs had to wait for two slow tasks and returned
C30_Witness ==
    /\ refs = MaxRefs
    /\ \A h \in 1..refs : origin[h].fn = "slow_function"
    /\ dpc = "idle"
    /\ Len(lastList.refs) = MaxRefs
    /\ lastList.kind # "none"
    /\ lastWaited

====
